---- MODULE Spec2Model ----
(***************************************************************************)
(* Bech De: the code-redemption protocol of app.py (api_scan) over the     *)
(* players / codes / scans tables, with registration and the CSV bootstrap *)
(* that build the state redemption works on.                               *)
(*                                                                         *)
(* Every db_execute call is one statement on its own connection, committed *)
(* before the call returns, so it is one atomic step of the store; the     *)
(* handler's local computation between two calls is invisible to other     *)
(* requests.  A request thread is therefore a process whose program        *)
(* counter names the next db_execute call it will make.                    *)
(*                                                                         *)
(* Strings are sequences of one-character strings, so that str.strip() is  *)
(* computed rather than assumed.  The statements modelled behave alike on  *)
(* both engines (USE_PG or not): the placeholder syntax is the only        *)
(* difference, and a locked or unreachable database is a call that raises. *)
(***************************************************************************)
EXTENDS Integers, Sequences, FiniteSets, TLC

\* ---------------------------------------------------------------- bounds
NProcs == 2         \* requests, each served by its own thread
MaxLen == 2         \* longest submitted code string
MaxRows == 4        \* most rows codes.csv gets

\* ------------------------------------------------------------- constants
NULL == -1                      \* SQL NULL / Python None in an INTEGER or TEXT column
NoSession == 0                  \* "player_id" not in session
NoScore == -1                   \* response without a "score" key

Procs == 1 .. NProcs
Alphabet == {" ", "A"}
SP == " "

\* the request bodies a client can send: every string up to MaxLen
CodeInputs == UNION {[1 .. n -> Alphabet] : n \in 0 .. MaxLen}
\* the names and passwords a registration form can carry
NameInputs == {<<>>, <<"A">>, <<SP, "A">>, <<"A", "A">>}
PasswordInputs == {<<>>, <<"p">>}
\* the "code" column of codes.csv
CsvRows == << <<"A">>, <<SP, "A">>, <<SP>>, <<>> >>
\* the cells a row of codes.csv can hold in its "code" column
CsvCells == {<<>>, <<SP>>, <<"A">>, <<SP, "A">>, <<"A", "A">>}

\* ------------------------------------------------------- pure functions
RECURSIVE lstrip(_)
lstrip(s) == IF s # <<>> /\ Head(s) = SP THEN lstrip(Tail(s)) ELSE s

RECURSIVE rstrip(_)
rstrip(s) ==
    IF s # <<>> /\ s[Len(s)] = SP THEN rstrip(SubSeq(s, 1, Len(s) - 1)) ELSE s

\* faulty variant: the .strip() call forgotten
stripNothing(s) == s
\* str.strip(): drop leading and trailing whitespace
strip(s) == rstrip(lstrip(s))

\* faulty variant: an off-by-one test of the claiming player's id
TruthyAboveOne(v) == v # NULL /\ v > 1
\* Python truthiness of a column value: None and 0 are false
Truthy(v) == v # NULL /\ v # 0

\* generate_password_hash: opaque, never the cleartext
generate_password_hash(pw) == <<"h">> \o pw

\* ----------------------------------------------------------------- state
VARIABLES
    players,        \* table players: rows [id, name, password_hash, score]
    codes,          \* table codes:   rows [id, code, used_by_player_id, used_at]
    scans,          \* table scans:   rows [player_id, code_id, scanned_at]; the
                    \* serial id is never read, and scanned_at tells rows apart
    clock,          \* datetime.utcnow(), in readings taken so far
    failed,         \* some db_execute call has raised
    pc,             \* per request: the next statement of api_scan
    blank,          \* per request: its "code" was empty or whitespace only
    scanned_code,   \* local of api_scan
    player_id,      \* local of api_scan
    now,            \* local of api_scan
    code_row,       \* local of api_scan
    resp,           \* per request: the response it got
    dbcalls,        \* per request: db_execute calls it made
    wrote,          \* per request: writes it committed
    calledAfterOk,  \* per request: its code had been redeemed when it began
    okCount,        \* per code id: "ok" responses returned so far
    anonymous,      \* per request: it came without "player_id" in its session
    okTo,           \* per code id: the players answered "ok" for it
    csv,            \* the file codes.csv: [exists, rows]
    initOut,        \* how the last init_db call ended
    regReq,         \* the last registration form posted: [name, password]
    regResp,        \* the page the last registration rendered
    resetResp,      \* what the last /admin/reset request returned
    db,             \* per caller: its call of db_execute, see NoCall
    conns           \* connections opened by get_db_conn and not closed yet

vars == <<players, codes, scans, clock, failed, pc, blank, scanned_code,
          player_id, now, code_row, resp, dbcalls, wrote,
          calledAfterOk, okCount, anonymous, okTo, csv, initOut, regReq,
          regResp, resetResp, db, conns>>

tables == <<players, codes, scans>>
locals == <<scanned_code, player_id, now, code_row>>
\* what the requests of api_scan carry and what is recorded about them
requests == <<pc, blank, locals, resp, dbcalls, wrote, calledAfterOk, okCount,
              anonymous, okTo, clock>>
\* what only init_db, register's page and /admin/reset touch
pages == <<csv, initOut, regReq, regResp, resetResp>>
\* the calls of db_execute taken statement by statement
dbx == <<db, conns>>
others == <<pages, dbx>>

\* ------------------------------------------------------------ SQL layer
NoRow == [id |-> NULL, code |-> <<>>, used_by_player_id |-> NULL, used_at |-> NULL]

\* SELECT * FROM codes WHERE code = ?   (fetchone)
SelectCode(tbl, c) ==
    IF \E i \in DOMAIN tbl : tbl[i].code = c
    THEN tbl[CHOOSE i \in DOMAIN tbl : tbl[i].code = c]
    ELSE NoRow

\* faulty variant: a plain INSERT INTO codes (code) VALUES (?)
InsertCodePlain(tbl, c) ==
    Append(tbl, [id |-> Len(tbl) + 1, code |-> c,
                 used_by_player_id |-> NULL, used_at |-> NULL])

\* INSERT OR IGNORE INTO codes (code) VALUES (?)  /  ON CONFLICT DO NOTHING
InsertOrIgnoreCode(tbl, c) ==
    IF \E i \in DOMAIN tbl : tbl[i].code = c
    THEN tbl
    ELSE Append(tbl, [id |-> Len(tbl) + 1, code |-> c,
                      used_by_player_id |-> NULL, used_at |-> NULL])

\* UPDATE codes SET used_by_player_id = ?, used_at = ? WHERE id = ?
UpdateCode(tbl, pid, t, id) ==
    [i \in DOMAIN tbl |->
        IF tbl[i].id = id
        THEN [tbl[i] EXCEPT !.used_by_player_id = pid, !.used_at = t]
        ELSE tbl[i]]

\* faulty variant: api_scan without its scans insert
InsertScanSkipped(tbl, pid, cid, t) == tbl

\* INSERT INTO scans (player_id, code_id, scanned_at) VALUES (?, ?, ?)
InsertScan(tbl, pid, cid, t) ==
    tbl \cup {[player_id |-> pid, code_id |-> cid, scanned_at |-> t]}

\* faulty variant: the score credited twice
UpdateScoreByTwo(tbl, pid) ==
    [i \in DOMAIN tbl |->
        IF tbl[i].id = pid THEN [tbl[i] EXCEPT !.score = @ + 2] ELSE tbl[i]]
\* UPDATE players SET score = score + 1 WHERE id = ?
UpdateScore(tbl, pid) ==
    [i \in DOMAIN tbl |->
        IF tbl[i].id = pid THEN [tbl[i] EXCEPT !.score = @ + 1] ELSE tbl[i]]

\* SELECT score FROM players WHERE id = ?   (fetchone), then
\* score = row.get("score") if row else 0
SelectScore(tbl, pid) ==
    IF \E i \in DOMAIN tbl : tbl[i].id = pid
    THEN tbl[CHOOSE i \in DOMAIN tbl : tbl[i].id = pid].score
    ELSE 0

\* INSERT INTO players (name, password_hash) VALUES (?, ?); name is UNIQUE
NameTaken(tbl, name) == \E i \in DOMAIN tbl : tbl[i].name = name
InsertPlayer(tbl, name, pwh) ==
    Append(tbl, [id |-> Len(tbl) + 1, name |-> name, password_hash |-> pwh,
                 score |-> 0])

\* ------------------------------------------------------------- init_db
\* codes = [row.get("code").strip() for row in reader
\*          if row.get("code") and row.get("code").strip()]
RECURSIVE CsvCodes(_)
CsvCodes(rows) ==
    IF rows = <<>> THEN <<>>
    ELSE IF Head(rows) # <<>> /\ strip(Head(rows)) # <<>>
         THEN <<strip(Head(rows))>> \o CsvCodes(Tail(rows))
         ELSE CsvCodes(Tail(rows))

RECURSIVE InsertCodes(_, _)
InsertCodes(tbl, cs) ==
    IF cs = <<>> THEN tbl
    ELSE InsertCodes(InsertOrIgnoreCode(tbl, Head(cs)), Tail(cs))

\* load the CSV only if the codes table is empty
LoadCodes(tbl, rows) ==
    IF Len(tbl) = 0 THEN InsertCodes(tbl, CsvCodes(rows)) ELSE tbl

\* ----------------------------------------------------------- responses
Json(status, message, http, score) ==
    [status |-> status, message |-> message, http |-> http, score |-> score]

NoResp == Json("none", "", 0, NoScore)
RedirectLogin == Json("redirect", "login", 302, NoScore)
NoCodeResp == Json("error", "No code detected", 200, NoScore)
InvalidResp == Json("invalid", "Invalid code", 200, NoScore)
UsedResp == Json("used", "Already claimed!", 200, NoScore)
OkResp(score) == Json("ok", "You captured this code!", 200, score)
ServerErrorResp == Json("error", "Server error (try again)", 500, NoScore)
\* an exception that leaves the view function: Flask's own 500 page
UnhandledResp == Json("exception", "Internal Server Error", 500, NoScore)

\* no registration form posted yet
\* a caller of db_execute: the statement it is at, the keyword arguments of
\* its call, whether the call opened a connection, and how the call ended
NoCall == [pc |-> "idle", fetchone |-> FALSE, fetchall |-> FALSE,
           commit |-> FALSE, opened |-> FALSE, out |-> "none"]
NoForm == [name |-> <<>>, password |-> <<>>]

\* ------------------------------------------------------------------ Init
Init ==
    /\ players = <<>>
    /\ codes = LoadCodes(<<>>, CsvRows)
    /\ scans = {}
    /\ clock = 0
    /\ failed = FALSE
    /\ pc = [p \in Procs |-> "start"]
    /\ blank = [p \in Procs |-> FALSE]
    /\ scanned_code = [p \in Procs |-> <<>>]
    /\ player_id = [p \in Procs |-> NoSession]
    /\ now = [p \in Procs |-> NULL]
    /\ code_row = [p \in Procs |-> NoRow]
    /\ resp = [p \in Procs |-> NoResp]
    /\ dbcalls = [p \in Procs |-> 0]
    /\ wrote = [p \in Procs |-> 0]
    /\ calledAfterOk = [p \in Procs |-> FALSE]
    /\ okCount = [i \in DOMAIN LoadCodes(<<>>, CsvRows) |-> 0]
    /\ anonymous = [p \in Procs |-> FALSE]
    /\ okTo = [i \in DOMAIN LoadCodes(<<>>, CsvRows) |-> {}]
    /\ csv = [exists |-> TRUE, rows |-> CsvRows]
    /\ initOut = "loaded"
    /\ regReq = NoForm
    /\ regResp = "none"
    /\ resetResp = "none"
    /\ db = [p \in Procs |-> NoCall] /\ conns = 0

\* -------------------------------------------------------------- helpers
\* a db_execute call raises: get_db_conn, cur.execute or conn.commit failed,
\* so the statement has no effect
Raises == failed' = TRUE

\* the view function returns (or an exception leaves it) with response r
Respond(p, r) ==
    /\ pc' = [pc EXCEPT ![p] = "done"]
    /\ resp' = [resp EXCEPT ![p] = r]
    /\ scanned_code' = [scanned_code EXCEPT ![p] = <<>>]
    /\ player_id' = [player_id EXCEPT ![p] = NoSession]
    /\ now' = [now EXCEPT ![p] = NULL]
    /\ code_row' = [code_row EXCEPT ![p] = NoRow]

Goto(p, label) ==
    /\ pc' = [pc EXCEPT ![p] = label]
    /\ UNCHANGED resp

\* login_required: "player_id" in session
\* faulty variant: every request passes login_required
LoggedInAlways(s) == TRUE
LoggedIn(s) == s # NoSession

\* ------------------------------------------------------------- register
\* the ways the POST branch of register can go
RegOutcomes == {"required", "inserted", "integrity", "raised"}

\* what register does to the store when it goes the way o
RegisterOutcome(name, password, o) ==
    /\ o = "required"  => (strip(name) = <<>> \/ password = <<>>)
    /\ o # "required"  => (strip(name) # <<>> /\ password # <<>>)
    /\ o = "inserted"  => ~NameTaken(players, strip(name))
    /\ o = "integrity" => NameTaken(players, strip(name))   \* IntegrityError
    /\ players' = IF o = "inserted"
                  THEN InsertPlayer(players, strip(name),
                                    generate_password_hash(password))
                  ELSE players
    /\ IF o = "raised" THEN Raises ELSE UNCHANGED failed     \* any other exception
    /\ UNCHANGED <<codes, scans, requests, csv, initOut, resetResp, dbx>>

\* the page register renders when it goes the way o
RegisterPage(o) ==
    CASE o = "required"  -> "Name and password required"
      [] o = "inserted"  -> "redirect login"
      [] o = "integrity" -> "Name already taken"
      [] o = "raised"    -> "Name already taken"

\* register as the store sees it: the page rendered is not recorded
Register(name, password) ==
    /\ \E o \in RegOutcomes : RegisterOutcome(name, password, o)
    /\ UNCHANGED <<regReq, regResp>>

\* register with the form posted and the page rendered
RegisterPost(name, password) ==
    \E o \in RegOutcomes :
        /\ RegisterOutcome(name, password, o)
        /\ regReq' = [name |-> name, password |-> password]
        /\ regResp' = RegisterPage(o)

\* ------------------------------------------------------ POST /api/scan
\* a client posts {"code": raw} with the session cookie it holds;
\* login_required, then api_scan up to its first db_execute.
\* utcnow() has microsecond resolution: each request reads a later instant,
\* so a timestamp is the number of the reading
IsBlank(raw) == \A i \in DOMAIN raw : raw[i] = SP

ApiScan(p, raw, sess) ==
    /\ pc[p] = "start"
    /\ \A q \in Procs : q < p => pc[q] # "start"   \* requests numbered by arrival
    /\ clock' = clock + 1
    /\ blank' = [blank EXCEPT ![p] = IsBlank(raw)]
    /\ anonymous' = [anonymous EXCEPT ![p] = (sess = NoSession)]
    /\ UNCHANGED <<tables, failed, dbcalls, wrote, okCount, okTo, others>>
    /\ IF ~LoggedIn(sess)
       THEN Respond(p, RedirectLogin) /\ UNCHANGED calledAfterOk
       ELSE IF strip(raw) = <<>>
       THEN Respond(p, NoCodeResp) /\ UNCHANGED calledAfterOk
       ELSE /\ scanned_code' = [scanned_code EXCEPT ![p] = strip(raw)]
            /\ player_id' = [player_id EXCEPT ![p] = sess]
            /\ now' = [now EXCEPT ![p] = clock + 1]
            /\ calledAfterOk' = [calledAfterOk EXCEPT ![p] =
                   \E i \in DOMAIN codes :
                       codes[i].code = strip(raw) /\ okCount[i] >= 1]
            /\ Goto(p, "find_code")
            /\ UNCHANGED code_row

\* 1) find code
FindCode(p) ==
    /\ pc[p] = "find_code"
    /\ dbcalls' = [dbcalls EXCEPT ![p] = @ + 1]
    /\ UNCHANGED <<tables, clock, blank, wrote, calledAfterOk, okCount,
                   anonymous, okTo, others>>
    /\ \/ /\ UNCHANGED failed
          /\ LET row == SelectCode(codes, scanned_code[p]) IN
             IF row = NoRow
             THEN Respond(p, InvalidResp)
             ELSE IF Truthy(row.used_by_player_id)
             THEN Respond(p, UsedResp)
             ELSE /\ code_row' = [code_row EXCEPT ![p] = row]
                  /\ Goto(p, "update_code")
                  /\ UNCHANGED <<scanned_code, player_id, now>>
       \/ /\ Raises                         \* outside the try block
          /\ Respond(p, UnhandledResp)

\* 2) mark as used
MarkUsed(p) ==
    /\ pc[p] = "update_code"
    /\ dbcalls' = [dbcalls EXCEPT ![p] = @ + 1]
    /\ UNCHANGED <<players, scans, clock, blank, calledAfterOk, okCount, locals,
                   anonymous, okTo, others>>
    /\ \/ /\ UNCHANGED failed
          /\ codes' = UpdateCode(codes, player_id[p], now[p], code_row[p].id)
          /\ wrote' = [wrote EXCEPT ![p] = @ + 1]
          /\ Goto(p, "insert_scan")
       \/ /\ Raises
          /\ UNCHANGED <<codes, wrote>>
          /\ Goto(p, "recheck")

\* insert scan
LogScan(p) ==
    /\ pc[p] = "insert_scan"
    /\ dbcalls' = [dbcalls EXCEPT ![p] = @ + 1]
    /\ UNCHANGED <<players, codes, clock, blank, calledAfterOk, okCount, locals,
                   anonymous, okTo, others>>
    /\ \/ /\ UNCHANGED failed
          /\ scans' = InsertScan(scans, player_id[p], code_row[p].id, now[p])
          /\ wrote' = [wrote EXCEPT ![p] = @ + 1]
          /\ Goto(p, "update_score")
       \/ /\ Raises
          /\ UNCHANGED <<scans, wrote>>
          /\ Goto(p, "recheck")

\* update player score
BumpScore(p) ==
    /\ pc[p] = "update_score"
    /\ dbcalls' = [dbcalls EXCEPT ![p] = @ + 1]
    /\ UNCHANGED <<codes, scans, clock, blank, calledAfterOk, okCount, locals,
                   anonymous, okTo, others>>
    /\ \/ /\ UNCHANGED failed
          /\ players' = UpdateScore(players, player_id[p])
          /\ wrote' = [wrote EXCEPT ![p] = @ + 1]
          /\ Goto(p, "fetch_score")
       \/ /\ Raises
          /\ UNCHANGED <<players, wrote>>
          /\ Goto(p, "recheck")

\* fetch updated score and answer ok
FetchScore(p) ==
    /\ pc[p] = "fetch_score"
    /\ dbcalls' = [dbcalls EXCEPT ![p] = @ + 1]
    /\ UNCHANGED <<tables, clock, blank, wrote, calledAfterOk, anonymous, others>>
    /\ \/ /\ UNCHANGED failed
          /\ Respond(p, OkResp(SelectScore(players, player_id[p])))
          /\ okCount' = [okCount EXCEPT ![code_row[p].id] = @ + 1]
          /\ okTo' = [okTo EXCEPT ![code_row[p].id] = @ \cup {player_id[p]}]
       \/ /\ Raises
          /\ Goto(p, "recheck")
          /\ UNCHANGED <<okCount, okTo, locals>>

\* except Exception: re-check status
Recheck(p) ==
    /\ pc[p] = "recheck"
    /\ dbcalls' = [dbcalls EXCEPT ![p] = @ + 1]
    /\ UNCHANGED <<tables, clock, blank, wrote, calledAfterOk, okCount,
                   anonymous, okTo, others>>
    /\ \/ /\ UNCHANGED failed
          /\ LET code_row2 == SelectCode(codes, scanned_code[p]) IN
             IF code_row2 # NoRow /\ Truthy(code_row2.used_by_player_id)
             THEN Respond(p, UsedResp)
             ELSE Respond(p, ServerErrorResp)
       \/ /\ Raises                         \* inside the except block
          /\ Respond(p, UnhandledResp)

\* ------------------------------------------------- init_db, codes.csv
\* someone adds a row to codes.csv (creating the file with its first row)
WriteCsvRow(cell) ==
    /\ Len(csv.rows) < MaxRows
    /\ csv' = [exists |-> TRUE, rows |-> Append(csv.rows, cell)]
    /\ UNCHANGED <<tables, failed, requests, initOut, regReq, regResp, resetResp, dbx>>

\* the per-code records follow the codes table
Extend(f, tbl, v) == [i \in DOMAIN tbl |-> IF i \in DOMAIN f THEN f[i] ELSE v]

\* what a call of init_db leaves in the codes table and how it ends.
\* createRaises: CREATE TABLE IF NOT EXISTS raises, and init_db with it;
\* countRaises:  SELECT COUNT(*) raises, which init_db takes for cnt = 0;
\* insertRaises: an INSERT of the load raises before its commit, and init_db with it
InitDbRaised(tbl, createRaises, countRaises, insertRaises) ==
    \/ createRaises
    \/ insertRaises /\ csv.exists /\ CsvCodes(csv.rows) # <<>>
                    /\ (countRaises \/ Len(tbl) = 0)

InitDbCodes(tbl, createRaises, countRaises, insertRaises) ==
    IF InitDbRaised(tbl, createRaises, countRaises, insertRaises) \/ ~csv.exists
    THEN tbl
    ELSE IF countRaises
    THEN InsertCodes(tbl, CsvCodes(csv.rows))
    ELSE LoadCodes(tbl, csv.rows)

InitDbOut(tbl, createRaises, countRaises, insertRaises) ==
    IF InitDbRaised(tbl, createRaises, countRaises, insertRaises) THEN "raised"
    ELSE IF csv.exists /\ (countRaises \/ Len(tbl) = 0) THEN "loaded"
    ELSE "skipped"

\* init_db, called at every process start
InitDb(createRaises, countRaises, insertRaises) ==
    /\ countRaises => ~createRaises
    /\ insertRaises => ~createRaises
    /\ codes' = InitDbCodes(codes, createRaises, countRaises, insertRaises)
    /\ initOut' = InitDbOut(codes, createRaises, countRaises, insertRaises)
    /\ failed' = (failed \/ createRaises \/ countRaises
                     \/ InitDbRaised(codes, createRaises, countRaises, insertRaises))
    /\ okCount' = Extend(okCount, codes', 0)
    /\ okTo' = Extend(okTo, codes', {})
    /\ UNCHANGED <<players, scans, clock, pc, blank, locals, resp, dbcalls, wrote,
                   calledAfterOk, anonymous, csv, regReq, regResp, resetResp,
                   dbx>>

\* ---------------------------------------------------------- /admin/reset
\* the tables admin_reset deletes, in the order scans, codes, players
NTables == 3
ConfirmInputs == {"", "no", "yes"}
NeedConfirm == "Add ?confirm=yes to confirm reset"
ResetComplete == "Reset complete! All data cleared."

\* GET /admin/reset?confirm=...; one such request is followed.
\* dropped: how many of the tables were deleted before a DROP TABLE raised
\* (PostgreSQL: any number; SQLite: all when os.remove succeeds, none when it
\* raises); the exception is passed over, init_db runs and the page is
\* returned.  A deleted table is an empty table once init_db has created it
AdminReset(confirm, dropped, createRaises, countRaises, insertRaises) ==
    /\ resetResp = "none"
    /\ IF confirm # "yes"
       THEN /\ dropped = 0 /\ ~createRaises /\ ~countRaises /\ ~insertRaises
            /\ resetResp' = NeedConfirm
            /\ UNCHANGED <<tables, failed, initOut, okCount, okTo>>
       ELSE LET codes1 == IF dropped >= 2 THEN <<>> ELSE codes IN
            /\ countRaises => ~createRaises
            /\ insertRaises => ~createRaises
            /\ scans' = IF dropped >= 1 THEN {} ELSE scans
            /\ codes' = InitDbCodes(codes1, createRaises, countRaises, insertRaises)
            /\ players' = IF dropped >= NTables THEN <<>> ELSE players
            /\ initOut' = InitDbOut(codes1, createRaises, countRaises, insertRaises)
            /\ resetResp' =
                 IF InitDbRaised(codes1, createRaises, countRaises, insertRaises)
                 THEN "exception" ELSE ResetComplete
            /\ failed' = (failed \/ dropped < NTables \/ createRaises \/ countRaises
                 \/ InitDbRaised(codes1, createRaises, countRaises, insertRaises))
            /\ okCount' = IF dropped >= 2 THEN [i \in DOMAIN codes' |-> 0]
                          ELSE Extend(okCount, codes', 0)
            /\ okTo' = IF dropped >= 2 THEN [i \in DOMAIN codes' |-> {}]
                       ELSE Extend(okTo, codes', {})
    /\ UNCHANGED <<clock, pc, blank, locals, resp, dbcalls, wrote, calledAfterOk,
                   anonymous, csv, regReq, regResp, dbx>>

\* ----------------------------------------------------------- db_execute
\* db_execute(sql, params, fetchone, fetchall, commit) is called
DbCall(p, fetchone, fetchall, commit) ==
    /\ db[p].pc = "idle"
    /\ db' = [db EXCEPT ![p] = [pc |-> "connect", fetchone |-> fetchone,
                                fetchall |-> fetchall, commit |-> commit,
                                opened |-> FALSE, out |-> "none"]]
    /\ UNCHANGED <<conns, tables, failed, requests, pages>>

\* conn = get_db_conn(), before the try: a connection, or an exception
DbConnect(p) ==
    /\ db[p].pc = "connect"
    /\ \/ /\ conns' = conns + 1
          /\ db' = [db EXCEPT ![p].pc = "execute", ![p].opened = TRUE]
          /\ UNCHANGED failed
       \/ /\ db' = [db EXCEPT ![p] = [NoCall EXCEPT !.out = "raised"]]
          /\ Raises
          /\ UNCHANGED conns
    /\ UNCHANGED <<tables, requests, pages>>

\* faulty variant: conn.close() only at the end of the try block
AfterRaiseNoFinally == "idle"
\* where an exception raised inside the try block takes the call: finally
AfterRaise == "close"

\* a statement of the try block raises
DbRaise(p) ==
    /\ db' = [db EXCEPT ![p].pc = AfterRaise, ![p].out = "raised"]
    /\ Raises
    /\ UNCHANGED conns

\* cur = conn.cursor(); cur.execute(adapted, params)
DbExecute(p) ==
    /\ db[p].pc = "execute"
    /\ \/ /\ db' = [db EXCEPT ![p].pc = IF db[p].commit THEN "commit" ELSE "fetch"]
          /\ UNCHANGED <<conns, failed>>
       \/ DbRaise(p)
    /\ UNCHANGED <<tables, requests, pages>>

\* if commit: conn.commit()
DbCommit(p) ==
    /\ db[p].pc = "commit"
    /\ \/ /\ db' = [db EXCEPT ![p].pc = "fetch"]
          /\ UNCHANGED <<conns, failed>>
       \/ DbRaise(p)
    /\ UNCHANGED <<tables, requests, pages>>

\* if fetchone: return ...; if fetchall: return ...; return None
DbFetch(p) ==
    /\ db[p].pc = "fetch"
    /\ \/ /\ db' = [db EXCEPT ![p].pc = "close",
                              ![p].out = IF db[p].fetchone THEN "row"
                                         ELSE IF db[p].fetchall THEN "rows"
                                         ELSE "None"]
          /\ UNCHANGED <<conns, failed>>
       \/ (db[p].fetchone \/ db[p].fetchall) /\ DbRaise(p)
    /\ UNCHANGED <<tables, requests, pages>>

\* finally: conn.close(), then the return or the exception leaves db_execute
DbClose(p) ==
    /\ db[p].pc = "close"
    /\ conns' = conns - 1
    /\ db' = [db EXCEPT ![p].pc = "idle"]
    /\ UNCHANGED <<tables, failed, requests, pages>>

\* the session cookies a client can hold: none, or one set by login
Sessions == {NoSession} \cup {players[i].id : i \in DOMAIN players}

Next ==
    \/ \E name \in NameInputs, password \in PasswordInputs : Register(name, password)
    \/ \E p \in Procs, raw \in CodeInputs, sess \in Sessions : ApiScan(p, raw, sess)
    \/ \E p \in Procs : FindCode(p)
    \/ \E p \in Procs : MarkUsed(p)
    \/ \E p \in Procs : LogScan(p)
    \/ \E p \in Procs : BumpScore(p)
    \/ \E p \in Procs : FetchScore(p)
    \/ \E p \in Procs : Recheck(p)

Spec == Init /\ [][Next]_vars

NextReg ==
    \/ \E name \in NameInputs, password \in PasswordInputs :
          RegisterPost(name, password)
    \/ \E p \in Procs, raw \in CodeInputs, sess \in Sessions : ApiScan(p, raw, sess)
    \/ \E p \in Procs :
          \/ FindCode(p) \/ MarkUsed(p) \/ LogScan(p)
          \/ BumpScore(p) \/ FetchScore(p) \/ Recheck(p)

\* the application with the page each POST /register returns
SpecReg == Init /\ [][NextReg]_vars

NextDb ==
    \/ \E p \in Procs, fetchone, fetchall, commit \in BOOLEAN :
          DbCall(p, fetchone, fetchall, commit)
    \/ \E p \in Procs : DbConnect(p)
    \/ \E p \in Procs : DbExecute(p)
    \/ \E p \in Procs : DbCommit(p)
    \/ \E p \in Procs : DbFetch(p)
    \/ \E p \in Procs : DbClose(p)

\* concurrent calls of db_execute, statement by statement
SpecDb == Init /\ [][NextDb]_vars

NextReset ==
    \/ \E name \in NameInputs, password \in PasswordInputs : Register(name, password)
    \/ \E p \in Procs, raw \in CodeInputs, sess \in Sessions : ApiScan(p, raw, sess)
    \/ \E p \in Procs :
          \/ FindCode(p) \/ MarkUsed(p) \/ LogScan(p)
          \/ BumpScore(p) \/ FetchScore(p) \/ Recheck(p)
    \/ \E confirm \in ConfirmInputs, dropped \in 0 .. NTables,
          createRaises, countRaises, insertRaises \in BOOLEAN :
          AdminReset(confirm, dropped, createRaises, countRaises, insertRaises)

\* the application with an /admin/reset request
SpecReset == Init /\ [][NextReset]_vars

\* a new database, before codes.csv is written and init_db first runs
InitBoot ==
    /\ players = <<>> /\ codes = <<>> /\ scans = {}
    /\ clock = 0 /\ failed = FALSE
    /\ pc = [p \in Procs |-> "start"]
    /\ blank = [p \in Procs |-> FALSE]
    /\ scanned_code = [p \in Procs |-> <<>>]
    /\ player_id = [p \in Procs |-> NoSession]
    /\ now = [p \in Procs |-> NULL]
    /\ code_row = [p \in Procs |-> NoRow]
    /\ resp = [p \in Procs |-> NoResp]
    /\ dbcalls = [p \in Procs |-> 0]
    /\ wrote = [p \in Procs |-> 0]
    /\ calledAfterOk = [p \in Procs |-> FALSE]
    /\ anonymous = [p \in Procs |-> FALSE]
    /\ okCount = <<>> /\ okTo = <<>>
    /\ csv = [exists |-> FALSE, rows |-> <<>>]
    /\ initOut = "none"
    /\ regReq = NoForm /\ regResp = "none" /\ resetResp = "none"
    /\ db = [p \in Procs |-> NoCall] /\ conns = 0

NextBoot ==
    \/ \E cell \in CsvCells : WriteCsvRow(cell)
    \/ \E createRaises, countRaises, insertRaises \in BOOLEAN :
          InitDb(createRaises, countRaises, insertRaises)

\* the life of the codes table: codes.csv grows, init_db runs at each start
SpecBoot == InitBoot /\ [][NextBoot]_vars

\* ------------------------------------------------------------ properties
Claimed(i) == codes[i].used_by_player_id # NULL
NumClaimed == Cardinality({i \in DOMAIN codes : Claimed(i)})

RECURSIVE SumScores(_)
SumScores(tbl) == IF tbl = <<>> THEN 0 ELSE Head(tbl).score + SumScores(Tail(tbl))

\* no request is between its first and its last db_execute call
Quiescent == \A p \in Procs : pc[p] \in {"start", "done"}

ScansOf(i) == {r \in scans : r.code_id = codes[i].id}
CodesOf(pid) == {i \in DOMAIN codes : codes[i].used_by_player_id = pid}

\* C1: of the requests that submit an unclaimed code, under any interleaving,
\* exactly one is answered ok, the others used, and, when no db_execute call
\* has raised, none is answered with a server error.
C1_ExactlyOneOk ==
    \A i \in DOMAIN codes :
        /\ okCount[i] <= 1
        /\ (~failed /\ Quiescent /\ Claimed(i)) => okCount[i] = 1
        /\ ~failed => \A p \in Procs : resp[p].http # 500

\* C2: a code is credited to at most one player: once every request has
\* completed, the scores add up to at most the number of claimed codes, and
\* to exactly that number when no db_execute call has raised.
C2_CreditedOnce ==
    Quiescent =>
        /\ SumScores(players) <= NumClaimed
        /\ ~failed => SumScores(players) = NumClaimed

\* C3: once a code's claim record is set, no step changes it: the claiming
\* player and the claim timestamp stay as they are.
C3_ClaimPermanent ==
    [][\A i \in DOMAIN codes : Claimed(i) => codes'[i] = codes[i]]_vars

\* C4: in every reachable state, a claimed code has exactly one scan row, that
\* row names the claiming player, and the claiming player's score counts the
\* codes claimed by that player.
C4_ClaimScanScore ==
    \A i \in DOMAIN codes :
        Claimed(i) =>
            /\ Cardinality(ScansOf(i)) = 1
            /\ \A r \in ScansOf(i) : r.player_id = codes[i].used_by_player_id
            /\ \A j \in DOMAIN players :
                   players[j].id = codes[i].used_by_player_id
                       => players[j].score = Cardinality(CodesOf(players[j].id))

\* C5: the three writes of a redemption are one unit of work: a completed
\* request has committed all three of them or none.
C5_AllOrNothing ==
    \A p \in Procs : pc[p] = "done" => wrote[p] \in {0, 3}

\* C6: a request that arrives after its code was redeemed (an ok was returned
\* for it) never reaches a write, is never answered ok, invalid or error, and
\* is answered used whenever its lookup of the code does not raise.
C6_UsedAfterOk ==
    \A p \in Procs :
        calledAfterOk[p] =>
            /\ pc[p] \in {"find_code", "done"}
            /\ wrote[p] = 0
            /\ pc[p] = "done" => resp[p] \in {UsedResp, UnhandledResp}
            /\ (pc[p] = "done" /\ dbcalls[p] = 1 /\ ~failed) => resp[p] = UsedResp

C6_Witness ==
    \E p \in Procs : calledAfterOk[p] /\ pc[p] = "done" /\ resp[p] = UsedResp

\* C7: the score update of a request adds exactly 1 to its player's stored
\* score, and a request answered ok returns that player's stored score and
\* leaves a scan row linking its player and its code.
C7_OkCredits ==
    [][\A p \in Procs :
          /\ (pc[p] = "update_score" /\ pc'[p] = "fetch_score")
                => /\ players'[player_id[p]].score = players[player_id[p]].score + 1
                   /\ \A j \in DOMAIN players :
                          j # player_id[p] => players'[j] = players[j]
          /\ (pc[p] = "fetch_score" /\ pc'[p] = "done" /\ resp'[p].status = "ok")
                => /\ resp'[p].score = players'[player_id[p]].score
                   /\ resp'[p].score >= 1
                   /\ \E r \in scans' : /\ r.player_id = player_id[p]
                                        /\ r.code_id = code_row[p].id]_vars

C7_Witness ==
    \E p \in Procs : pc[p] = "done" /\ resp[p].status = "ok" /\ resp[p].score = 1

\* C8: a request whose code is empty or whitespace only makes no db_execute
\* call, changes no table, and (unless login_required turns it away) is
\* answered with the no-code response, which differs from every other
\* response of api_scan and whose status is not invalid.
C8_BlankRejected ==
    [][\A p \in Procs :
          (pc[p] = "start" /\ pc'[p] # "start" /\ blank'[p])
              => /\ pc'[p] = "done"
                 /\ resp'[p] \in {NoCodeResp, RedirectLogin}
                 /\ dbcalls'[p] = 0 /\ wrote'[p] = 0
                 /\ tables' = tables
                 /\ NoCodeResp.status # "invalid"
                 /\ NoCodeResp \notin {InvalidResp, UsedResp, ServerErrorResp,
                                       UnhandledResp, RedirectLogin}
                 /\ NoCodeResp.message # OkResp(0).message]_vars

C8_Witness ==
    \E p \in Procs : blank[p] /\ pc[p] = "done" /\ resp[p] = NoCodeResp

\* C9: a backend failure at any db_execute call of api_scan is answered with
\* status error; no exception leaves the request handler.
C9_NoUnhandled ==
    \A p \in Procs : resp[p].status # "exception"

\* C10: a request answered invalid or used has committed no write.
C10_NoEffect ==
    \A p \in Procs :
        (pc[p] = "done" /\ resp[p].status \in {"invalid", "used"}) => wrote[p] = 0

\* the strings t that are row r without its leading and trailing whitespace
TrimsOf(r) ==
    {SubSeq(r, i, j) : <<i, j>> \in
        {ij \in (DOMAIN r) \X (DOMAIN r) :
            /\ ij[1] <= ij[2]
            /\ r[ij[1]] # SP /\ r[ij[2]] # SP
            /\ \A k \in DOMAIN r : (k < ij[1] \/ k > ij[2]) => r[k] = SP}}
\* the distinct non-blank trimmed strings of a list of rows
DistinctCodes(rows) == UNION {TrimsOf(rows[k]) : k \in DOMAIN rows}

\* C11: a call of init_db on a non-empty codes table changes no table: no
\* code is added, removed or un-claimed and no player or scan row changes,
\* whatever codes.csv holds by then.
C11_InitDbNoOp ==
    [][(csv' = csv /\ Len(codes) > 0) => tables' = tables]_vars

\* C12: a call of init_db that finds the codes table empty and codes.csv
\* there, and does not raise, leaves exactly the distinct non-blank trimmed
\* strings of the rows in the table, each once and unclaimed.
C12_BootstrapExact ==
    [][(csv' = csv /\ Len(codes) = 0 /\ csv.exists /\ initOut' # "raised")
          => /\ {codes'[i].code : i \in DOMAIN codes'} = DistinctCodes(csv.rows)
             /\ Len(codes') = Cardinality(DistinctCodes(csv.rows))
             /\ \A i \in DOMAIN codes' :
                    /\ codes'[i].id = i
                    /\ codes'[i].used_by_player_id = NULL
                    /\ codes'[i].used_at = NULL]_vars

\* codes.csv held a blank row and a repeated code when init_db loaded two codes
C12_Witness ==
    /\ initOut = "loaded" /\ Len(codes) = 2
    /\ Len(csv.rows) = 4
    /\ \E k \in DOMAIN csv.rows : csv.rows[k] = <<SP>>
    /\ \E k, l \in DOMAIN csv.rows : k < l /\ csv.rows[k] = csv.rows[l]
                                          /\ csv.rows[k] \notin {<<>>, <<SP>>}

\* C13: POST /register answers "Name already taken" only when a player with
\* the submitted (trimmed) name exists; a registration that failed for
\* another reason is answered differently.
C13_TakenOnlyIfTaken ==
    regResp = "Name already taken" => NameTaken(players, strip(regReq.name))

\* C14: a redeem request without a logged-in session is answered with the
\* redirect to the login page at once: it makes no database call, reads and
\* writes nothing, and no table changes in its step.
C14_AnonymousRejected ==
    [][\A p \in Procs :
          /\ (pc[p] = "start" /\ pc'[p] # "start" /\ anonymous'[p])
                => /\ pc'[p] = "done" /\ resp'[p] = RedirectLogin
                   /\ tables' = tables
          /\ anonymous'[p] => (dbcalls'[p] = 0 /\ wrote'[p] = 0)]_vars

\* a request carrying a code but no session was turned away
C14_Witness ==
    \E p \in Procs : /\ anonymous[p] /\ ~blank[p]
                     /\ pc[p] = "done" /\ resp[p] = RedirectLogin
                     /\ dbcalls[p] = 0

\* C17: once ok was returned to player P for a code, the code's claim
\* record names P in every later state.
C17_OkIsOwner ==
    \A i \in DOMAIN codes : \A P \in okTo[i] : codes[i].used_by_player_id = P

\* C18: in every reachable state each player's score is at most the number
\* of that player's scan rows, and every scan row references a claimed code.
C18_ScoreWithinScans ==
    /\ \A pid \in DOMAIN players :
          players[pid].score <= Cardinality({s \in scans : s.player_id = pid})
    /\ \A s \in scans : s.code_id \in DOMAIN codes /\ Claimed(s.code_id)

\* a player was credited for a logged scan of a claimed code
C18_Witness ==
    \E pid \in DOMAIN players :
        /\ players[pid].score = 1
        /\ \E s \in scans : s.player_id = pid /\ Claimed(s.code_id)

\* the calls of db_execute that are between get_db_conn and conn.close()
InTry == {p \in Procs : db[p].pc \in {"execute", "commit", "fetch", "close"}}

\* C15: every connection a call of db_execute opened is closed when the call
\* is left, by return or by exception: the open connections are those of
\* the calls still inside the try block, and none when no call is running.
C15_ConnectionsReleased ==
    /\ conns = Cardinality(InTry)
    /\ (\A p \in Procs : db[p].pc = "idle") => conns = 0

\* no call is running; one opened a connection and raised, another returned
C15_Witness ==
    /\ \A p \in Procs : db[p].pc = "idle"
    /\ \E p, q \in Procs : /\ db[p].opened /\ db[p].out = "raised"
                           /\ db[q].opened /\ db[q].out = "row"
    /\ conns = 0

\* C16: /admin/reset without confirm=yes changes no table; with confirm=yes,
\* whenever it returns its "Reset complete" page, there is no player row, no
\* scan row and every code of the codes table is unclaimed.
C16_ResetClears ==
    [][/\ (resetResp = "none" /\ resetResp' = NeedConfirm) => tables' = tables
       /\ (resetResp = "none" /\ resetResp' = ResetComplete)
             => /\ players' = <<>> /\ scans' = {}
                /\ \A i \in DOMAIN codes' :
                      /\ codes'[i].used_by_player_id = NULL
                      /\ codes'[i].used_at = NULL]_vars

====
